---------------------------- MODULE Spec2Model ----------------------------
(***************************************************************************)
(* A model of the numbers-round solver of solve_countdown.py:              *)
(*   all_subgroups      the partition generator,                           *)
(*   arithmetic_values  the expression evaluator,                          *)
(*   all_values, solve  the search driver.                                 *)
(*                                                                         *)
(* Python objects are records: an int is [ty |-> "int", val, pos] and a    *)
(* tuple or list is [ty |-> "tuple", items].  pos is a ghost field: the    *)
(* index of the token in the input list.  The code never reads it (it      *)
(* compares tokens by value); the properties about token identity do.      *)
(* Texts are sequences of one-character strings, so that formatting and    *)
(* reading a text are computations and not the identity.                   *)
(***************************************************************************)
EXTENDS Integers, Sequences, FiniteSets, TLC

VARIABLES ns, t, pc, groups, gi, cands, ci, closest, result,
          ops0, ops1, k0, k1, emitted, raised

vars == <<ns, t, pc, groups, gi, cands, ci, closest, result,
          ops0, ops1, k0, k1, emitted, raised>>

(***************************************************************************)
(* Bounds of the model.                                                    *)
(***************************************************************************)
\* token values are drawn from 1..MaxVal
MaxVal == 4
\* the driver is run on lists of 0..MaxLen tokens
MaxLen == 3
\* the generator alone is run on lists of 0..GenLen tokens, and for the
\* properties that need an even split on lists of 0..GenLen+1 tokens
GenLen == 3
\* targets are drawn from MinTarget..MaxTarget
MaxTarget == 9
MinTarget == 0 - 1

(***************************************************************************)
(* Sequences.                                                              *)
(***************************************************************************)
\* what a generator's for loop yields in all: the yields of its iterations,
\* one after the other
RECURSIVE Flatten(_)
Flatten(ss) == IF ss = <<>> THEN <<>> ELSE Head(ss) \o Flatten(Tail(ss))

\* all sequences over S of length lo..hi
SeqsOf(S, lo, hi) == UNION {[1..n -> S] : n \in lo..hi}

(***************************************************************************)
(* Python values.                                                          *)
(***************************************************************************)
PyInt(v, p)  == [ty |-> "int",   val |-> v, pos |-> p, items |-> <<>>]
PyTuple(xs)  == [ty |-> "tuple", val |-> 0, pos |-> 0, items |-> xs]

\* the input list as Python sees it, each int tagged with its position
Tokens(numbers) == [i \in 1..Len(numbers) |-> PyInt(numbers[i], i)]

\* a // b for b # 0 (floor division)
PyFloorDiv(a, b) ==
    LET qa == (IF a < 0 THEN -a ELSE a) \div (IF b < 0 THEN -b ELSE b)
        exact == qa * (IF b < 0 THEN -b ELSE b) = (IF a < 0 THEN -a ELSE a)
    IN  IF (a < 0) = (b < 0) THEN qa
        ELSE IF exact THEN -qa ELSE -qa - 1

\* a % b: raises ZeroDivisionError when b = 0, else a - b * (a // b)
PyMod(a, b) ==
    [raised |-> b = 0,
     val    |-> IF b = 0 THEN 0 ELSE a - b * PyFloorDiv(a, b)]

Abs(x) == IF x < 0 THEN -x ELSE x

(***************************************************************************)
(* Texts: str() and str.format().                                          *)
(***************************************************************************)
Digit == <<"0", "1", "2", "3", "4", "5", "6", "7", "8", "9">>

RECURSIVE StrNat(_)
StrNat(n) == IF n < 10 THEN <<Digit[n + 1]>>
             ELSE StrNat(n \div 10) \o <<Digit[(n % 10) + 1]>>

\* str(n)
Str(n) == IF n < 0 THEN <<"-">> \o StrNat(-n) ELSE StrNat(n)

\* "({} + {})", "{} * {}", "({} - {})", "{} / {}"
FmtAdd(a, b) == <<"(">> \o a \o <<" ", "+", " ">> \o b \o <<")">>
FmtMul(a, b) == a \o <<" ", "*", " ">> \o b
FmtSub(a, b) == <<"(">> \o a \o <<" ", "-", " ">> \o b \o <<")">>
FmtDiv(a, b) == a \o <<" ", "/", " ">> \o b

(***************************************************************************)
(* all_subgroups.                                                          *)
(***************************************************************************)
\* itertools.combinations(s, k), in its order
RECURSIVE Combinations(_, _)
Combinations(s, k) ==
    IF k = 0 THEN << <<>> >>
    ELSE IF Len(s) < k THEN <<>>
    ELSE LET with == Combinations(Tail(s), k - 1)
         IN  [j \in 1..Len(with) |-> <<Head(s)>> \o with[j]]
             \o Combinations(Tail(s), k)

\* x in lcs: Python compares the ints by value
InByValue(x, lcs) == \E j \in 1..Len(lcs) : lcs[j].val = x.val

\* a slip: the tokens of the left side are not removed
RemainingNumbersKeepsLeft(s, lcs) == s

\* [x for x in list(ns) if x not in lcs]
RemainingNumbers(s, lcs) == SelectSeq(s, LAMBDA x : ~InByValue(x, lcs))

\* range(1, (len(ns)+1)//2)
LeftSizes(n) == 1..(((n + 1) \div 2) - 1)

\* for rcs in combinations(tuple(remaining_numbers), len(ns)-i): the right
\* sides handed to the recursion for the left side lcs
RightSides(s, lcs) ==
    Combinations(RemainingNumbers(s, lcs), Len(s) - Len(lcs))

RECURSIVE AllSubgroups(_)
AllSubgroups(s) ==
    IF Len(s) <= 2 THEN <<PyTuple(s)>>
    ELSE LET \* lines 243-249
             ForRcs(lcs, rcs) ==
                 LET lss == AllSubgroups(lcs)
                     rss == AllSubgroups(rcs)
                     ForLs(ls) ==
                         <<ls>> \o Flatten([r \in 1..Len(rss) |->
                                       <<rss[r], PyTuple(<<ls, rss[r]>>)>>])
                 IN  Flatten([l \in 1..Len(lss) |-> ForLs(lss[l])])
             \* lines 239-241
             ForLcs(lcs) ==
                 LET rights == RightSides(s, lcs)
                 IN  Flatten([r \in 1..Len(rights) |-> ForRcs(lcs, rights[r])])
             \* line 238
             ForI(i) ==
                 LET lefts == Combinations(s, i)
                 IN  Flatten([l \in 1..Len(lefts) |-> ForLcs(lefts[l])])
             sizes == LeftSizes(Len(s))
         IN  Flatten([i \in sizes |-> ForI(i)])

(***************************************************************************)
(* arithmetic_values.  A candidate is [v |-> value, s |-> text].  An       *)
(* evaluation is [out |-> the candidates yielded, raised |-> whether it    *)
(* ended in ZeroDivisionError].                                            *)
(***************************************************************************)
Cand(v, s) == [v |-> v, s |-> s]

\* a slip: the remainder is taken whether or not b is 0
DividesExactlyUnguarded(a, b) ==
    LET m == PyMod(a, b)
    IN  [raised |-> m.raised, val |-> ~m.raised /\ m.val = 0]

\* the test "b != 0 and a % b == 0": the remainder is taken only when the
\* left conjunct holds
DividesExactly(a, b) ==
    LET m == PyMod(a, b)
    IN  IF b # 0 THEN [raised |-> m.raised, val |-> ~m.raised /\ m.val = 0]
        ELSE [raised |-> FALSE, val |-> FALSE]

\* a slip: the quotient 1 is yielded for equal operands that are 0 too
EqualBranchAlwaysDivides(c0, c1) ==
    <<Cand(0, FmtSub(c0.s, c1.s)), Cand(1, FmtDiv(c0.s, c1.s))>>

\* lines 193-196: the operands are equal
EqualBranch(c0, c1) ==
    <<Cand(0, FmtSub(c0.s, c1.s))>>
    \o (IF c0.v # 0 THEN <<Cand(1, FmtDiv(c0.s, c1.s))>> ELSE <<>>)

\* lines 202-206: the division of unequal operands
UnequalDivision(c0, c1) ==
    LET d01 == DividesExactly(c0.v, c1.v)
        d10 == DividesExactly(c1.v, c0.v)
    IN  IF d01.raised THEN [out |-> <<>>, raised |-> TRUE]
        ELSE IF d01.val
          THEN [out |-> <<Cand(PyFloorDiv(c0.v, c1.v), FmtDiv(c0.s, c1.s))>>,
                raised |-> FALSE]
        ELSE IF d10.raised THEN [out |-> <<>>, raised |-> TRUE]
        ELSE IF d10.val
          THEN [out |-> <<Cand(PyFloorDiv(c1.v, c0.v), FmtDiv(c1.s, c0.s))>>,
                raised |-> FALSE]
        ELSE [out |-> <<>>, raised |-> FALSE]

\* lines 199-206: the operands differ
UnequalBranch(c0, c1) ==
    LET d == UnequalDivision(c0, c1)
    IN  [out |-> <<Cand(c0.v - c1.v, FmtSub(c0.s, c1.s)),
                   Cand(c1.v - c0.v, FmtSub(c1.s, c0.s))>> \o d.out,
         raised |-> d.raised]

\* lines 189-206: the body of the two loops, for one pair of operands
PairValues(c0, c1) ==
    LET head == <<Cand(c0.v + c1.v, FmtAdd(c0.s, c1.s)),
                  Cand(c0.v * c1.v, FmtMul(c0.s, c1.s))>>
        rest == IF c0.v = c1.v
                THEN [out |-> EqualBranch(c0, c1), raised |-> FALSE]
                ELSE UnequalBranch(c0, c1)
    IN  [out |-> head \o rest.out, raised |-> rest.raised]

\* the candidates yielded up to the first step that raises
UntilRaise(steps) ==
    LET bad  == {k \in 1..Len(steps) : steps[k].raised}
        last == IF bad = {} THEN Len(steps)
                ELSE CHOOSE k \in bad : \A m \in bad : k <= m
    IN  [out    |-> Flatten([k \in 1..last |-> steps[k].out]),
         raised |-> bad # {}]

RECURSIVE ArithmeticValues(_)
ArithmeticValues(g) ==
    IF g.ty = "int" THEN [out |-> <<Cand(g.val, Str(g.val))>>, raised |-> FALSE]
    ELSE IF Len(g.items) = 1
      THEN [out |-> <<Cand(g.items[1].val, Str(g.items[1].val))>>,
            raised |-> FALSE]
    ELSE IF Len(g.items) = 2
      THEN LET L == ArithmeticValues(g.items[1])
               R == ArithmeticValues(g.items[2])
               \* one pass of the inner loop; the inner generator is run
               \* again for every n0 and raises again where it raised
               Row(c0) == [j \in 1..Len(R.out) |-> PairValues(c0, R.out[j])]
                          \o <<[out |-> <<>>, raised |-> R.raised]>>
           IN  UntilRaise(Flatten([i \in 1..Len(L.out) |-> Row(L.out[i])])
                          \o <<[out |-> <<>>, raised |-> L.raised]>>)
    ELSE [out |-> <<>>, raised |-> FALSE]

\* all_values(ns), as a list
AllValues(numbers) ==
    LET css == AllSubgroups(Tokens(numbers))
    IN  Flatten([i \in 1..Len(css) |-> ArithmeticValues(css[i]).out])

(***************************************************************************)
(* solve: the search driver.  pc is Idle before the call, Searching while  *)
(* the loop over all_values runs, Solved after the return of line 119 and  *)
(* BestEffort after the return of line 127.  groups[gi] is the grouping of *)
(* the outer loop of all_values and cands[ci] the candidate last consumed; *)
(* the elapsed time in the returned tuple is left out.                     *)
(***************************************************************************)
NoRecord == [s |-> <<>>, v |-> 0, diff |-> 0]
NoResult == [length |-> 0, solution |-> <<>>, is_solved |-> FALSE]

\* closest = ("0", 1, abs(t))
InitialClosest(target) == [s |-> <<"0">>, v |-> 1, diff |-> Abs(target)]

\* a slip: a candidate one away from the target is taken for the target
IsExactOffByOne(diff) == diff <= 1

\* if diff == 0
IsExact(diff) == diff = 0

\* elif diff < closest[2]
IsCloser(diff, best) == diff < best.diff

\* "{} = {}".format(s, v)
FmtSolved(s, v) == s \o <<" ", "=", " ">> \o Str(v)

\* "{} = {}, {} away from {}".format(*closest, t)
FmtClosest(best, target) ==
    best.s \o <<" ", "=", " ">> \o Str(best.v) \o <<",", " ">> \o Str(best.diff)
    \o <<" ", "a", "w", "a", "y", " ", "f", "r", "o", "m", " ">> \o Str(target)

Returned(solution, solved) ==
    [length |-> Len(solution), solution |-> solution, is_solved |-> solved]

EvalIdle ==
    /\ ops0 = <<>> /\ ops1 = <<>> /\ k0 = 0 /\ k1 = 0
    /\ emitted = <<>> /\ raised = FALSE

SearchIdle ==
    /\ t = 0 /\ cands = <<>> /\ ci = 0
    /\ closest = NoRecord /\ result = NoResult

Init ==
    /\ ns \in SeqsOf(1..MaxVal, 0, MaxLen)
    /\ t \in MinTarget..MaxTarget
    /\ pc = "Idle"
    /\ groups = <<>> /\ gi = 0
    /\ cands = <<>> /\ ci = 0
    /\ closest = NoRecord /\ result = NoResult
    /\ EvalIdle

\* lines 110-111, and the creation of the generator of line 113
Invoke ==
    /\ pc = "Idle"
    /\ pc' = "Searching"
    /\ closest' = InitialClosest(t)
    /\ groups' = AllSubgroups(Tokens(ns))
    /\ gi' = 0 /\ cands' = <<>> /\ ci' = 0
    /\ UNCHANGED <<ns, t, result, ops0, ops1, k0, k1, emitted, raised>>

\* all_values, line 142: the next grouping, once the candidates of the
\* current one are used up
NextGrouping ==
    /\ pc = "Searching"
    /\ ci = Len(cands)
    /\ gi < Len(groups)
    /\ gi' = gi + 1
    /\ cands' = ArithmeticValues(groups[gi + 1]).out
    /\ ci' = 0
    /\ UNCHANGED <<ns, t, pc, groups, closest, result,
                   ops0, ops1, k0, k1, emitted, raised>>

\* lines 114-119: the next candidate equals the target
Exact ==
    /\ pc = "Searching"
    /\ ci < Len(cands)
    /\ LET c == cands[ci + 1]
       IN  /\ IsExact(Abs(t - c.v))
           /\ result' = Returned(FmtSolved(c.s, c.v), TRUE)
    /\ ci' = ci + 1
    /\ pc' = "Solved"
    /\ UNCHANGED <<ns, t, groups, gi, cands, closest,
                   ops0, ops1, k0, k1, emitted, raised>>

\* lines 114, 121-122: the next candidate is closer than the best so far
Closer ==
    /\ pc = "Searching"
    /\ ci < Len(cands)
    /\ LET c == cands[ci + 1]
           diff == Abs(t - c.v)
       IN  /\ ~IsExact(diff)
           /\ IsCloser(diff, closest)
           /\ closest' = [s |-> c.s, v |-> c.v, diff |-> diff]
    /\ ci' = ci + 1
    /\ UNCHANGED <<ns, t, pc, groups, gi, cands, result,
                   ops0, ops1, k0, k1, emitted, raised>>

\* lines 114-121: the next candidate is neither
Skip ==
    /\ pc = "Searching"
    /\ ci < Len(cands)
    /\ LET diff == Abs(t - cands[ci + 1].v)
       IN  ~IsExact(diff) /\ ~IsCloser(diff, closest)
    /\ ci' = ci + 1
    /\ UNCHANGED <<ns, t, pc, groups, gi, cands, closest, result,
                   ops0, ops1, k0, k1, emitted, raised>>

\* lines 124-127: the enumeration is used up
Exhausted ==
    /\ pc = "Searching"
    /\ ci = Len(cands)
    /\ gi = Len(groups)
    /\ result' = Returned(FmtClosest(closest, t), FALSE)
    /\ pc' = "BestEffort"
    /\ UNCHANGED <<ns, t, groups, gi, cands, ci, closest,
                   ops0, ops1, k0, k1, emitted, raised>>

Next == Invoke \/ NextGrouping \/ Exact \/ Closer \/ Skip \/ Exhausted

Spec == Init /\ [][Next]_vars

(***************************************************************************)
(* all_values alone, one step per grouping of its outer loop.               *)
(***************************************************************************)
GenInitUpTo(n) ==
    /\ ns \in SeqsOf(1..MaxVal, 0, n)
    /\ pc = "GenIdle"
    /\ groups = <<>> /\ gi = 0
    /\ SearchIdle
    /\ EvalIdle

GenInit == GenInitUpTo(GenLen)

GenWideInit == GenInitUpTo(GenLen + 1)

\* the call all_subgroups(ns) of line 142
GenStart ==
    /\ pc = "GenIdle"
    /\ pc' = "Generating"
    /\ groups' = AllSubgroups(Tokens(ns))
    /\ UNCHANGED <<ns, t, gi, cands, ci, closest, result,
                   ops0, ops1, k0, k1, emitted, raised>>

\* lines 142-144: the next grouping and the candidates it is evaluated to
GenYield ==
    /\ pc = "Generating"
    /\ gi < Len(groups)
    /\ gi' = gi + 1
    /\ cands' = ArithmeticValues(groups[gi + 1]).out
    /\ UNCHANGED <<ns, t, pc, groups, ci, closest, result,
                   ops0, ops1, k0, k1, emitted, raised>>

\* the generator is used up
GenDone ==
    /\ pc = "Generating"
    /\ gi = Len(groups)
    /\ pc' = "GenDone"
    /\ UNCHANGED <<ns, t, groups, gi, cands, ci, closest, result,
                   ops0, ops1, k0, k1, emitted, raised>>

GenNext == GenStart \/ GenYield \/ GenDone

SpecGen == GenInit /\ [][GenNext]_vars

SpecGenWide == GenWideInit /\ [][GenNext]_vars

(***************************************************************************)
(* arithmetic_values alone, on a grouping that pairs two groups of one or  *)
(* two tokens: one step per pair of operand candidates (n0, n1) of the two *)
(* loops of lines 187-188.  ops0[k0] and ops1[k1] are the operands of the  *)
(* last pair and emitted what lines 189-206 yielded for it.                *)
(***************************************************************************)
LeafGroupings == {PyTuple(Tokens(s)) : s \in SeqsOf(1..MaxVal, 1, 2)}

EvalInit ==
    /\ groups \in {<<PyTuple(<<gl, gr>>)>> : gl \in LeafGroupings,
                                             gr \in LeafGroupings}
    /\ gi = 1
    /\ ns = <<>>
    /\ pc = "EvalIdle"
    /\ SearchIdle
    /\ EvalIdle

\* lines 187-188: the two generators of the operands
EvalStart ==
    /\ pc = "EvalIdle"
    /\ pc' = "Evaluating"
    /\ ops0' = ArithmeticValues(groups[gi].items[1]).out
    /\ ops1' = ArithmeticValues(groups[gi].items[2]).out
    /\ k0' = 1 /\ k1' = 0
    /\ UNCHANGED <<ns, t, groups, gi, cands, ci, closest, result,
                   emitted, raised>>

\* lines 189-206 for the next pair of operands
EvalPair ==
    /\ pc = "Evaluating"
    /\ ~raised
    /\ \/ k1 < Len(ops1) /\ k0' = k0 /\ k1' = k1 + 1
       \/ k1 = Len(ops1) /\ k0 < Len(ops0) /\ k0' = k0 + 1 /\ k1' = 1
    /\ LET r == PairValues(ops0[k0'], ops1[k1'])
       IN  /\ emitted' = r.out
           /\ raised' = r.raised
           /\ cands' = cands \o r.out
    /\ UNCHANGED <<ns, t, pc, groups, gi, ci, closest, result, ops0, ops1>>

\* both loops are used up
EvalDone ==
    /\ pc = "Evaluating"
    /\ ~raised
    /\ k1 = Len(ops1) /\ k0 = Len(ops0)
    /\ pc' = "EvalDone"
    /\ UNCHANGED <<ns, t, groups, gi, cands, ci, closest, result,
                   ops0, ops1, k0, k1, emitted, raised>>

EvalNext == EvalStart \/ EvalPair \/ EvalDone

SpecEval == EvalInit /\ [][EvalNext]_vars

(***************************************************************************)
(* What the properties are stated with: the tokens of a grouping, and the  *)
(* values of the expressions over a set of tokens, defined with sets and   *)
(* with divisibility as the existence of a quotient.                       *)
(***************************************************************************)
RECURSIVE Leaves(_)
Leaves(g) ==
    IF g.ty = "int" THEN <<g>>
    ELSE Flatten([i \in 1..Len(g.items) |-> Leaves(g.items[i])])

Positions(g) == {Leaves(g)[i].pos : i \in 1..Len(Leaves(g))}

IsPair(g) ==
    /\ g.ty = "tuple" /\ Len(g.items) = 2
    /\ g.items[1].ty = "tuple" /\ g.items[2].ty = "tuple"

\* every pair inside g has children over disjoint sets of tokens
RECURSIVE ChildrenDisjoint(_)
ChildrenDisjoint(g) ==
    IsPair(g) =>
        /\ Positions(g.items[1]) \cap Positions(g.items[2]) = {}
        /\ Leaves(g.items[1]) # <<>> /\ Leaves(g.items[2]) # <<>>
        /\ ChildrenDisjoint(g.items[1])
        /\ ChildrenDisjoint(g.items[2])

Quotients(a, b) == {q \in (0 - Abs(a))..Abs(a) : b # 0 /\ q * b = a}

\* the values of x op y and y op x, for x in A and y in B
Combined(A, B) ==
    UNION {{a + b, a * b, a - b, b - a} \cup Quotients(a, b) \cup Quotients(b, a)
           : <<a, b>> \in A \X B}

\* the values of the expressions that have the shape of grouping g
RECURSIVE TreeValues(_)
TreeValues(g) ==
    IF g.ty = "int" THEN {g.val}
    ELSE IF Len(g.items) = 1 THEN TreeValues(g.items[1])
    ELSE IF Len(g.items) = 2
      THEN Combined(TreeValues(g.items[1]), TreeValues(g.items[2]))
    ELSE {}

\* the values of the expressions that use exactly the tokens at positions S
RECURSIVE ExactValues(_, _)
ExactValues(numbers, S) ==
    IF Cardinality(S) = 1 THEN {numbers[p] : p \in S}
    ELSE UNION {Combined(ExactValues(numbers, A), ExactValues(numbers, S \ A))
                : A \in (SUBSET S) \ {{}, S}}

\* the values of the expressions over a non-empty subset of the tokens
ExprValues(numbers) ==
    UNION {ExactValues(numbers, S)
           : S \in (SUBSET (1..Len(numbers))) \ {{}}}

Distinct(numbers) ==
    \A i, j \in 1..Len(numbers) : i # j => numbers[i] # numbers[j]

\* the tokens of s that are not tokens of lcs
ComplementByPos(s, lcs) ==
    SelectSeq(s, LAMBDA x : \A j \in 1..Len(lcs) : lcs[j].pos # x.pos)

(***************************************************************************)
(* The generator's properties, under SpecGen.                              *)
(***************************************************************************)
\* C5: every grouping yielded, at any depth of the recursion, uses tokens of
\* the input, each position at most once, the two children of a pair over
\* disjoint sets of tokens; and every candidate value it is evaluated to is
\* the value of an expression over exactly those tokens.
C5_TokensUsedOnce ==
    (pc = "Generating" /\ gi >= 1) =>
        LET g  == groups[gi]
            lv == Leaves(g)
        IN  /\ Cardinality(Positions(g)) = Len(lv)
            /\ \A i \in 1..Len(lv) :
                   /\ lv[i].pos \in 1..Len(ns)
                   /\ lv[i].val = ns[lv[i].pos]
            /\ ChildrenDisjoint(g)
            /\ \A k \in 1..Len(cands) : cands[k].v \in TreeValues(g)

\* C5's case: a pair over all three tokens of the input, two of them of
\* equal value, has been yielded and evaluated
C5_Witness ==
    /\ pc = "Generating" /\ gi >= 1
    /\ IsPair(groups[gi])
    /\ Positions(groups[gi]) = {1, 2, 3}
    /\ ~Distinct(ns)
    /\ Len(cands) > 4

\* C3: for N >= 3 tokens and every left subset, the right side handed to the
\* recursion is exactly the tokens not chosen for the left, also when tokens
\* have equal values; so a grouping that uses all the tokens is produced.
C3_RightSideIsComplement ==
    /\ (pc = "Generating" /\ Len(ns) >= 3) =>
          LET s == Tokens(ns)
          IN  \A i \in LeftSizes(Len(s)) :
                \A k \in 1..Len(Combinations(s, i)) :
                  LET lcs == Combinations(s, i)[k]
                  IN  RightSides(s, lcs) = <<ComplementByPos(s, lcs)>>
    /\ (pc = "GenDone" /\ Len(ns) >= 3) =>
          \E k \in 1..Len(groups) : Positions(groups[k]) = 1..Len(ns)

\* C8: for N > 2 tokens the left subsets of every size i, 1 <= i <= N \div 2,
\* are enumerated, so that a full split i | N-i is yielded for each: for
\* N = 4 the groupings ((a,b),(c,d)).
C8_HalfSplitsEnumerated ==
    (pc = "GenDone" /\ Len(ns) > 2 /\ Distinct(ns)) =>
        \A i \in 1..(Len(ns) \div 2) :
            /\ i \in LeftSizes(Len(ns))
            /\ \E k \in 1..Len(groups) :
                   /\ IsPair(groups[k])
                   /\ Len(Leaves(groups[k].items[1])) = i
                   /\ Len(Leaves(groups[k].items[2])) = Len(ns) - i

(***************************************************************************)
(* The driver's properties, under Spec.                                    *)
(***************************************************************************)
Terminal == pc \in {"Solved", "BestEffort"}

\* the number of candidates the loop of solve has taken from all_values
RECURSIVE YieldedBy(_)
YieldedBy(n) ==
    IF n = 0 THEN 0
    ELSE Len(ArithmeticValues(groups[n]).out) + YieldedBy(n - 1)

Consumed == IF gi = 0 THEN 0 ELSE YieldedBy(gi - 1) + ci

\* the indices of the candidates of the enumeration that equal the target
ExactAt(stream) == {k \in 1..Len(stream) : stream[k].v = t}

\* C4, its results: a Solved result is exact and is the first candidate of
\* the enumeration that equals the target, with no candidate after it
\* consumed; a BestEffort result is not exact, no candidate equals the target
\* and all of them are consumed.
C4_Result ==
    LET stream == AllValues(ns)
    IN  /\ pc = "Solved" =>
              /\ result.is_solved
              /\ ExactAt(stream) # {}
              /\ Consumed \in ExactAt(stream)
              /\ \A k \in ExactAt(stream) : Consumed <= k
              /\ cands[ci] = stream[Consumed]
              /\ result.solution = FmtSolved(stream[Consumed].s, t)
              /\ result.length = Len(result.solution)
        /\ pc = "BestEffort" =>
              /\ ~result.is_solved
              /\ ExactAt(stream) = {}
              /\ Consumed = Len(stream)

\* C4, its steps: Searching is entered from Idle, Solved only from Searching
\* by the step that consumes a candidate equal to the target, BestEffort only
\* from Searching with the enumeration used up, and neither is ever left.
C4_Step ==
    /\ ~Terminal
    /\ pc' # pc =>
          \/ pc = "Idle" /\ pc' = "Searching"
          \/ /\ pc = "Searching" /\ pc' = "Solved"
             /\ ci' = ci + 1 /\ gi' = gi /\ cands' = cands
             /\ cands[ci'].v = t
          \/ /\ pc = "Searching" /\ pc' = "BestEffort"
             /\ ci = Len(cands) /\ gi = Len(groups)

\* C4: the result is exact if and only if some candidate of the enumeration
\* equals the target; it is then the first such candidate, and no candidate
\* after it is consumed.  Solved is entered only from Searching, by the
\* exact-match step, and BestEffort only after the enumeration is used up
\* with no exact match.
C4_ExactIffFirstMatch == [](Terminal => C4_Result) /\ [][C4_Step]_vars

\* C4's case: the search has stopped at the first candidate equal to the
\* target, in a later grouping, with further such candidates left unconsumed
C4_Witness ==
    /\ pc = "Solved"
    /\ gi >= 2 /\ ci >= 2
    /\ \E k \in ExactAt(AllValues(ns)) : k > Consumed

\* C1: for 1 to 6 positive tokens and a positive target, if some expression
\* over a non-empty subset of the tokens, each used at most once, has the
\* target as its value, the result is exact.
C1_ReachableIsSolved ==
    (Terminal /\ Len(ns) >= 1 /\ t >= 1 /\ t \in ExprValues(ns)) =>
        result.is_solved

\* C2: when no candidate equals the target, the result is the earliest
\* candidate of the enumeration whose distance to the target is minimal.
C2_ClosestIsEarliestMinimal ==
    (pc = "BestEffort" /\ Len(ns) >= 1 /\ t >= 1 /\ AllValues(ns) # <<>>) =>
        LET stream == AllValues(ns)
        IN  \E k \in 1..Len(stream) :
              /\ \A j \in 1..Len(stream) :
                     Abs(t - stream[k].v) <= Abs(t - stream[j].v)
              /\ \A j \in 1..(k - 1) :
                     Abs(t - stream[k].v) < Abs(t - stream[j].v)
              /\ result.solution =
                     FmtClosest([s |-> stream[k].s, v |-> stream[k].v,
                                 diff |-> Abs(t - stream[k].v)], t)

\* C7: solve on an empty list, or with a target that is not positive, fails
\* with an error and returns no result.
C7_InvalidInputFails ==
    (ns = <<>> \/ t <= 0) => ~Terminal

(***************************************************************************)
(* Reading a text as ordinary arithmetic over the rationals: parentheses   *)
(* first, then * and / from left to right, then + and - from left to       *)
(* right.  A rational is [ok, n, d] with d # 0; ok is FALSE for a text     *)
(* that is no expression or that divides by zero.  A parse is [val, pos]:  *)
(* the value read and the index of the first character not read.           *)
(***************************************************************************)
Rat(n, d)   == [ok |-> TRUE, n |-> n, d |-> d]
BadRat      == [ok |-> FALSE, n |-> 0, d |-> 1]

RatOp(op, x, y) ==
    IF ~x.ok \/ ~y.ok THEN BadRat
    ELSE IF op = "+" THEN Rat(x.n * y.d + y.n * x.d, x.d * y.d)
    ELSE IF op = "-" THEN Rat(x.n * y.d - y.n * x.d, x.d * y.d)
    ELSE IF op = "*" THEN Rat(x.n * y.n, x.d * y.d)
    ELSE IF y.n = 0 THEN BadRat
    ELSE Rat(x.n * y.d, x.d * y.n)

IsDigit(ch)  == \E k \in 1..10 : Digit[k] = ch
DigitVal(ch) == (CHOOSE k \in 1..10 : Digit[k] = ch) - 1

RECURSIVE SkipSpaces(_, _)
SkipSpaces(s, i) ==
    IF i <= Len(s) /\ s[i] = " " THEN SkipSpaces(s, i + 1) ELSE i

RECURSIVE ReadDigits(_, _, _)
ReadDigits(s, i, acc) ==
    IF i <= Len(s) /\ IsDigit(s[i])
    THEN ReadDigits(s, i + 1, 10 * acc + DigitVal(s[i]))
    ELSE [val |-> Rat(acc, 1), pos |-> i]

RECURSIVE ReadExpr(_, _)
RECURSIVE ReadExprRest(_, _, _)
RECURSIVE ReadTerm(_, _)
RECURSIVE ReadTermRest(_, _, _)
RECURSIVE ReadFactor(_, _)

ReadFactor(s, i0) ==
    LET i == SkipSpaces(s, i0)
    IN  IF i > Len(s) THEN [val |-> BadRat, pos |-> i]
        ELSE IF s[i] = "("
          THEN LET e == ReadExpr(s, i + 1)
                   j == SkipSpaces(s, e.pos)
               IN  IF j <= Len(s) /\ s[j] = ")"
                   THEN [val |-> e.val, pos |-> j + 1]
                   ELSE [val |-> BadRat, pos |-> j]
        ELSE IF s[i] = "-"
          THEN LET f == ReadFactor(s, i + 1)
               IN  [val |-> RatOp("-", Rat(0, 1), f.val), pos |-> f.pos]
        ELSE IF IsDigit(s[i]) THEN ReadDigits(s, i, 0)
        ELSE [val |-> BadRat, pos |-> i]

ReadTermRest(s, i0, acc) ==
    LET i == SkipSpaces(s, i0)
    IN  IF i <= Len(s) /\ s[i] \in {"*", "/"}
        THEN LET f == ReadFactor(s, i + 1)
             IN  ReadTermRest(s, f.pos, RatOp(s[i], acc, f.val))
        ELSE [val |-> acc, pos |-> i]

ReadTerm(s, i) ==
    LET f == ReadFactor(s, i) IN ReadTermRest(s, f.pos, f.val)

ReadExprRest(s, i0, acc) ==
    LET i == SkipSpaces(s, i0)
    IN  IF i <= Len(s) /\ s[i] \in {"+", "-"}
        THEN LET f == ReadTerm(s, i + 1)
             IN  ReadExprRest(s, f.pos, RatOp(s[i], acc, f.val))
        ELSE [val |-> acc, pos |-> i]

ReadExpr(s, i) ==
    LET f == ReadTerm(s, i) IN ReadExprRest(s, f.pos, f.val)

\* the text s, read as arithmetic, denotes the integer v
Denotes(s, v) ==
    LET r == ReadExpr(s, 1)
    IN  r.pos = Len(s) + 1 /\ r.val.ok /\ r.val.n = v * r.val.d

(***************************************************************************)
(* The evaluator's properties, under SpecEval.                             *)
(***************************************************************************)
\* a pair of operands has been evaluated
Evaluated == pc = "Evaluating" /\ k1 >= 1

Divides(d, n) == d # 0 /\ Quotients(n, d) # {}
Quotient(n, d) == CHOOSE q \in Quotients(n, d) : TRUE

\* C6: a division candidate of value q is the quotient of a dividend a and a
\* divisor b, the two operands in the order of its text, with b # 0 and
\* q * b = a; and no step divides or takes a remainder by zero, also when an
\* operand is 0 or negative.
C6_DivisionRoundTrip ==
    /\ ~raised
    /\ Evaluated =>
          LET c0 == ops0[k0]
              c1 == ops1[k1]
              orders == {<<c0, c1>>, <<c1, c0>>}
          IN  \A k \in 1..Len(emitted) :
                (\E o \in orders : emitted[k].s = FmtDiv(o[1].s, o[2].s)) =>
                    \E o \in orders :
                        /\ emitted[k].s = FmtDiv(o[1].s, o[2].s)
                        /\ o[2].v # 0
                        /\ emitted[k].v * o[2].v = o[1].v

\* C6's case: the right operand is an intermediate 0, the left one is not,
\* and the one division yielded is 0 divided by the left operand
C6_Witness ==
    /\ Evaluated
    /\ ops1[k1].v = 0 /\ ops0[k0].v # 0
    /\ Len(emitted) = 5
    /\ emitted[5] = Cand(0, FmtDiv(ops1[k1].s, ops0[k0].s))

\* C9: for operands L and R the candidates yielded are, in this order, L+R
\* and L*R; then for L = R a difference 0 and, exactly when L # 0, a
\* quotient 1; for L # R the differences L-R and R-L and then L/R when R # 0
\* divides L, else R/L when L # 0 divides R, else no quotient.
C9_EmittedCandidates ==
    Evaluated =>
        LET L  == ops0[k0].v
            R  == ops1[k1].v
            Ls == ops0[k0].s
            Rs == ops1[k1].s
            tail ==
                IF L = R
                THEN <<Cand(0, FmtSub(Ls, Rs))>>
                     \o (IF L # 0 THEN <<Cand(1, FmtDiv(Ls, Rs))>> ELSE <<>>)
                ELSE <<Cand(L - R, FmtSub(Ls, Rs)), Cand(R - L, FmtSub(Rs, Ls))>>
                     \o (IF Divides(R, L)
                           THEN <<Cand(Quotient(L, R), FmtDiv(Ls, Rs))>>
                         ELSE IF Divides(L, R)
                           THEN <<Cand(Quotient(R, L), FmtDiv(Rs, Ls))>>
                         ELSE <<>>)
        IN  emitted = <<Cand(L + R, FmtAdd(Ls, Rs)), Cand(L * R, FmtMul(Ls, Rs))>>
                      \o tail

\* C9's case: both operands are 0, and only the sum, the product and one
\* difference have been yielded
C9_Witness ==
    /\ Evaluated
    /\ ops0[k0].v = 0 /\ ops1[k1].v = 0
    /\ Len(emitted) = 3

\* C10: the text of every candidate yielded, read as ordinary arithmetic,
\* denotes the candidate's value, given operands whose texts denote theirs.
C10_TextDenotesValue ==
    (Evaluated /\ Denotes(ops0[k0].s, ops0[k0].v)
               /\ Denotes(ops1[k1].s, ops1[k1].v)) =>
        \A k \in 1..Len(emitted) : Denotes(emitted[k].s, emitted[k].v)

=============================================================================
